---- MODULE Spec2Model ----
(***************************************************************************)
(* unwatched-jellyfin: the run of main() (index.ts) against the Jellyfin,  *)
(* Sonarr and Radarr clients.  A client call of main() takes two steps:    *)
(* the request goes out and main() is suspended (Issue), then the answer   *)
(* arrives and main() runs its synchronous code up to the next await.      *)
(*                                                                         *)
(* Spec is the run; SpecArgs, SpecStale and SpecMatch apply the option     *)
(* parsing, the classification and the matching alone to drawn inputs.     *)
(*                                                                         *)
(* Dates are milliseconds since the epoch (what new Date(s).getTime()      *)
(* yields); the ISO strings Jellyfin returns compare as these numbers do.  *)
(***************************************************************************)
EXTENDS Integers, Sequences, FiniteSets, TLC

\* ---------------------------------------------------------------- bounds
MaxEpisodes == 2
MaxCatalog == 2
MaxMovies == 2
MaxChildFiles == 2
MaxDays == 1
MaxGroup == 2
RunDays == 1

\* ------------------------------------------------------------- constants
MsPerDay == 86400000
NULL == -1

Now0 == 10 * MsPerDay

SeriesNames == {"A", "B"}
EpisodeNames == {""} \cup SeriesNames
MovieNames == {"A", "B"}

\* Error messages a client call can throw with; "" is an error without message.
NotFoundMessages == {"404 Not Found", "does not exist"}
OtherMessages == {"500 Internal Server Error"}
OK == "ok"
TypeErrorMessage == "is not a function"

\* ------------------------------------------------------- pure functions
Abs(x) == IF x < 0 THEN -x ELSE x

\* Math.ceil(a / b) for a >= 0, b > 0
Ceil(a, b) == (a + b - 1) \div b

isOlderThan_Floor(date, days, now) ==
    LET diffTime == Abs(now - date)
        diffDays == diffTime \div MsPerDay
    IN  diffDays > days

isOlderThan(date, days, now) ==
    LET diffTime == Abs(now - date)
        diffDays == Ceil(diffTime, MsPerDay)
    IN  diffDays > days

\* e.message && (e.message.includes("404") || e.message.includes("does not exist"))
IsNotFound(msg) == msg \in NotFoundMessages

RECURSIVE FirstSeen(_, _)
\* Map insertion order of the keys: the distinct non-empty series names, first seen first
FirstSeen(eps, seen) ==
    IF eps = <<>> THEN <<>>
    ELSE LET n == Head(eps).seriesName IN
         IF n = "" \/ n \in seen THEN FirstSeen(Tail(eps), seen)
         ELSE <<n>> \o FirstSeen(Tail(eps), seen \cup {n})

EpisodesOf(eps, name) == SelectSeq(eps, LAMBDA e: e.seriesName = name)

RECURSIVE OldestFrom(_, _)
\* episodes.reduce((oldest, ep) => ep.dateCreated < oldest.dateCreated ? ep : oldest)
OldestFrom(oldest, rest) ==
    IF rest = <<>> THEN oldest
    ELSE OldestFrom(IF Head(rest).dateCreated < oldest.dateCreated
                    THEN Head(rest) ELSE oldest, Tail(rest))

OldestEpisode(episodes) == OldestFrom(Head(episodes), Tail(episodes))

SeriesIsStale(episodes, days, now) ==
    LET watchedCount == Len(SelectSeq(episodes, LAMBDA e: e.played)) IN
    /\ watchedCount = 0
    /\ Len(episodes) > 0
    /\ isOlderThan(OldestEpisode(episodes).dateCreated, days, now)

\* fullyUnwatchedSeries: a record for each stale series, in first-seen order.
\* watchedCount is the count the classification tested for the group; the
\* code leaves it out of the record.
FullyUnwatchedSeries(eps, days, now) ==
    LET stale == SelectSeq(FirstSeen(eps, {}),
                           LAMBDA n: SeriesIsStale(EpisodesOf(eps, n), days, now))
    IN  [i \in 1..Len(stale) |->
            [seriesName   |-> stale[i],
             episodeCount |-> Len(EpisodesOf(eps, stale[i])),
             oldestDate   |-> OldestEpisode(EpisodesOf(eps, stale[i])).dateCreated,
             watchedCount |-> Len(SelectSeq(EpisodesOf(eps, stale[i]),
                                            LAMBDA e: e.played))]]

\* fullyUnwatchedMovies
FullyUnwatchedMovies(movies, days, now) ==
    SelectSeq(SelectSeq(movies, LAMBDA m: ~m.played),
              LAMBDA m: isOlderThan(m.dateCreated, days, now))

\* ------------------------------------------------------------- matching
Max(S) == CHOOSE x \in S : \A y \in S : y <= x
Min(S) == CHOOSE x \in S : \A y \in S : x <= y

TitleIndexes(list, title) == {i \in DOMAIN list : list[i].title = title}

TitleMapGet_FirstWins(list, title) ==
    IF TitleIndexes(list, title) = {} THEN 0 ELSE Min(TitleIndexes(list, title))

\* new Map(list.map(x => [x.title, x])).get(title): a later entry of the same
\* title replaces the earlier one.  The result is the index in the listing of
\* the entry the map holds, 0 when the map has no such key.
TitleMapGet(list, title) ==
    IF TitleIndexes(list, title) = {} THEN 0 ELSE Max(TitleIndexes(list, title))

\* seriesToProcess
SeriesToProcess(fus, sonarr) ==
    LET matched == SelectSeq(fus, LAMBDA g: TitleMapGet(sonarr, g.seriesName) # 0) IN
    [i \in 1..Len(matched) |->
        [jellyfinName |-> matched[i].seriesName,
         sonarrSeries |-> sonarr[TitleMapGet(sonarr, matched[i].seriesName)]]]

\* actions, as built (before the summary sorts them)
SeriesActions(stp) ==
    [i \in 1..Len(stp) |->
        [seriesTitle |-> stp[i].sonarrSeries.title,
         seriesId    |-> stp[i].sonarrSeries.id,
         fileCount   |-> stp[i].sonarrSeries.fileCount,
         sizeBytes   |-> stp[i].sonarrSeries.sizeBytes]]

MovieMatches_AnyEntry(radarr, name) == TitleMapGet(radarr, name) # 0

MovieMatches_NullOnly(radarr, name) ==
    /\ TitleMapGet(radarr, name) # 0
    /\ radarr[TitleMapGet(radarr, name)].movieFileId # NULL

\* radarrMovie && radarrMovie.movieFile?.id
MovieMatches(radarr, name) ==
    /\ TitleMapGet(radarr, name) # 0
    /\ radarr[TitleMapGet(radarr, name)].movieFileId # NULL
    /\ radarr[TitleMapGet(radarr, name)].movieFileId # 0

\* moviesToProcess
MoviesToProcess(fum, radarr) ==
    LET matched == SelectSeq(fum, LAMBDA m: MovieMatches(radarr, m.name)) IN
    [i \in 1..Len(matched) |->
        [jellyfinName |-> matched[i].name,
         radarrMovie  |-> radarr[TitleMapGet(radarr, matched[i].name)]]]

\* x || 0 for an id or size that may be absent
OrZero(x) == IF x = NULL THEN 0 ELSE x

\* movieActions, as built (before the summary sorts them)
MovieActions(mtp) ==
    [i \in 1..Len(mtp) |->
        [movieTitle  |-> mtp[i].radarrMovie.title,
         movieId     |-> mtp[i].radarrMovie.id,
         movieFileId |-> OrZero(mtp[i].radarrMovie.movieFileId),
         sizeBytes   |-> OrZero(mtp[i].radarrMovie.sizeBytes)]]

RECURSIVE InsertBySize(_, _)
\* a goes after every element at least as large: the sort is stable
InsertBySize(sorted, a) ==
    IF sorted = <<>> THEN <<a>>
    ELSE IF Head(sorted).sizeBytes >= a.sizeBytes
         THEN <<Head(sorted)>> \o InsertBySize(Tail(sorted), a)
         ELSE <<a>> \o sorted

RECURSIVE SortFrom(_, _)
SortFrom(sorted, rest) ==
    IF rest = <<>> THEN sorted
    ELSE SortFrom(InsertBySize(sorted, Head(rest)), Tail(rest))

SortBySizeDesc_Unsorted(acts) == acts

\* acts.sort((a, b) => b.sizeBytes - a.sizeBytes): in place, stable, largest first
SortBySizeDesc(acts) == SortFrom(<<>>, acts)

SumOf_LastOnly(acts, field) == IF acts = <<>> THEN 0 ELSE acts[Len(acts)][field]

RECURSIVE SumOf(_, _)
\* acts.reduce((sum, a) => sum + a[field], 0)
SumOf(acts, field) ==
    IF acts = <<>> THEN 0 ELSE Head(acts)[field] + SumOf(Tail(acts), field)

\* ---------------------------------------------------------------- state
VARIABLES
    argv,                  \* the options given on the command line, "" when absent
    env,                   \* the environment variables, "" when unset
    args,                  \* the parsed command line
    dryRun,                \* main's dryRun
    now,                   \* the clock isOlderThan reads
    pc,                    \* where main() is
    exitCode,              \* the process exit status, NULL while running
    fatal,                 \* message of the error that left main(), "" if none
    calls,                 \* the client calls made so far, with their results
    outstanding,           \* the backend requests sent and not yet answered
    waiting,               \* main() is suspended at an await
    errors,                \* the "Error deleting ..." lines printed
    seriesReport,          \* the line that ended the series block
    movieReport,           \* the line that ended the movie block
    allEpisodes, fullyUnwatchedSeries, sonarrSeries, seriesToProcess, actions,
    sIdx,                  \* position of the series loop in actions
    episodes,              \* episode file ids of the series being processed
    eIdx,                  \* position of the episode loop in episodes
    totalFilesToDelete, totalSizeBytes,        \* the series summary's totals
    deletedCount, skippedCount, totalDeleted, totalSkipped,
    allMovies, fullyUnwatchedMovies, radarrMovies, moviesToProcess, movieActions,
    mIdx,                  \* position of the movie loop in movieActions
    totalMovieFilesToDelete, totalMovieSizeBytes, \* the movie summary's totals
    totalMoviesDeleted, totalMoviesSkipped

cliVars == <<argv, env>>
runVars == <<args, dryRun, now, pc, exitCode, fatal, calls, errors,
             seriesReport, movieReport>>
netVars == <<outstanding, waiting>>
seriesVars == <<allEpisodes, fullyUnwatchedSeries, sonarrSeries, seriesToProcess,
                actions, sIdx, episodes, eIdx, deletedCount, skippedCount,
                totalDeleted, totalSkipped, totalFilesToDelete, totalSizeBytes>>
movieVars == <<allMovies, fullyUnwatchedMovies, radarrMovies, moviesToProcess,
               movieActions, mIdx, totalMoviesDeleted, totalMoviesSkipped,
               totalMovieFilesToDelete, totalMovieSizeBytes>>
vars == <<cliVars, runVars, netVars, seriesVars, movieVars>>

\* --------------------------------------------------------------- inputs
SeqsUpTo(S, n) == UNION {[1..k -> S] : k \in 0..n}

OldDate == Now0 - RunDays * MsPerDay - 1000
NewDate == Now0 - 1000
\* a creation date ahead of the clock of this machine
FutureDate == Now0 + RunDays * MsPerDay + 1000

EpisodeRecords ==
    [seriesName : EpisodeNames, played : BOOLEAN,
     dateCreated : {OldDate, NewDate, FutureDate}]
MovieRecords ==
    [name : MovieNames, played : BOOLEAN, dateCreated : {OldDate, NewDate}]

Sizes == 1..2
FileCounts == 0..1

\* a Sonarr listing: the ids are distinct; fileCount and sizeBytes are
\* statistics?.episodeFileCount || 0 and statistics?.sizeOnDisk || 0
SonarrListings ==
    {[i \in DOMAIN l |-> [title |-> l[i].title, id |-> i,
                          fileCount |-> l[i].fileCount, sizeBytes |-> l[i].sizeBytes]] :
        l \in SeqsUpTo([title : SeriesNames, fileCount : FileCounts, sizeBytes : Sizes],
                       MaxCatalog)}

\* a Radarr listing: movieFileId is NULL when the movie has no movieFile
RadarrFiles == {[movieFileId |-> NULL, sizeBytes |-> NULL]}
               \cup [movieFileId : {0, 1}, sizeBytes : Sizes]
RadarrListings ==
    {[i \in DOMAIN l |->
        [title |-> l[i].title, id |-> i,
         movieFileId |-> IF l[i].file.movieFileId = 1 THEN 10 + i
                         ELSE l[i].file.movieFileId,
         sizeBytes |-> l[i].file.sizeBytes]] :
        l \in SeqsUpTo([title : MovieNames, file : RadarrFiles], MaxCatalog)}

\* what getEpisodesBySeriesId answers, as the episodeFileId of each episode:
\* null, 0, or the id of a file of this series
EpisodeFileIdLists(seriesId) ==
    {[i \in DOMAIN l |-> IF l[i] = 1 THEN 10 * seriesId + i ELSE l[i]] :
        l \in SeqsUpTo({NULL, 0, 1}, MaxChildFiles)}

FailureMessages == NotFoundMessages \cup OtherMessages
\* a read call either answers or throws
ReadOutcomes == {OK} \cup OtherMessages
\* a delete or an update answers, or throws with any message
WriteOutcomes == {OK} \cup FailureMessages
\* SonarrClient has no updateSeriesMonitored: calling it throws a TypeError
UpdateSeriesMonitoredOutcomes == {TypeErrorMessage}

Call(op, arg, res) == [op |-> op, arg |-> arg, res |-> res]

HasEpisodeFile_NullOnly(fid) == fid # NULL

\* ep.episodeFileId !== null && ep.episodeFileId !== 0
HasEpisodeFile(fid) == fid # NULL /\ fid # 0

\* a boolean option: its value when given (--x, --no-x), else its default
FlagValue(given, default) == IF given = "" THEN default ELSE given = "true"

\* a string option: its value when given, else its default
StringValue(given, default) == IF given = "" THEN default ELSE given

DryRunDefault_OnlyTrue(v) == v.DRY_RUN = "true"

\* default: process.env.DRY_RUN !== "false"
DryRunDefault(v) == v.DRY_RUN # "false"

\* yargs(...).parseSync(), as far as main() reads the result; hasSonarr and
\* hasRadarr are args["sonarr-api-key"] !== "" and args["radarr-api-key"] !== ""
ParseArgs(a, v, days) ==
    [dryRun    |-> FlagValue(a.dryRun, DryRunDefault(v)),
     execute   |-> FlagValue(a.execute, FALSE),
     hasSonarr |-> StringValue(a.sonarrApiKey, v.SONARR_API_KEY) # "",
     hasRadarr |-> StringValue(a.radarrApiKey, v.RADARR_API_KEY) # "",
     days      |-> days]

\* the command lines and environments of the runs: nothing set in the
\* environment, dry-run left to its default, --execute given or not, the
\* keys given as options
RunArgvs == [dryRun : {""}, execute : {"", "true"},
             sonarrApiKey : {"", "key"}, radarrApiKey : {"", "key"}]
RunEnvs == [DRY_RUN : {""}, SONARR_API_KEY : {""}, RADARR_API_KEY : {""}]

DryRunOf_DroppedNot(a) == a.dryRun /\ a.execute

\* const dryRun = args["dry-run"] && !args.execute
DryRunOf(a) == a.dryRun /\ ~a.execute

\* a request to a backend: the endpoint and the id in its path
Request(op, arg) == [op |-> op, arg |-> arg]
NoRequest == Request("", 0)

Awaits_DeleteUnawaited(op) == op # "deleteEpisodeFile"

\* every client call of main(), and every request inside a client method, is
\* awaited: the caller is suspended until the answer
Awaits(op) == TRUE

\* ----------------------------------------------------------------- Init
SeriesBlockInit ==
    /\ allEpisodes = <<>> /\ fullyUnwatchedSeries = <<>> /\ sonarrSeries = <<>>
    /\ seriesToProcess = <<>> /\ actions = <<>> /\ sIdx = 0
    /\ episodes = <<>> /\ eIdx = 0
    /\ deletedCount = 0 /\ skippedCount = 0 /\ totalDeleted = 0 /\ totalSkipped = 0
    /\ totalFilesToDelete = 0 /\ totalSizeBytes = 0

MovieBlockInit ==
    /\ allMovies = <<>> /\ fullyUnwatchedMovies = <<>> /\ radarrMovies = <<>>
    /\ moviesToProcess = <<>> /\ movieActions = <<>> /\ mIdx = 0
    /\ totalMoviesDeleted = 0 /\ totalMoviesSkipped = 0
    /\ totalMovieFilesToDelete = 0 /\ totalMovieSizeBytes = 0

Init ==
    /\ argv \in RunArgvs
    /\ env \in RunEnvs
    /\ args = ParseArgs(argv, env, RunDays)
    /\ dryRun = FALSE
    /\ now = Now0
    /\ pc = "start"
    /\ exitCode = NULL
    /\ fatal = ""
    /\ calls = <<>>
    /\ outstanding = <<>>
    /\ waiting = FALSE
    /\ errors = <<>>
    /\ seriesReport = ""
    /\ movieReport = ""
    /\ SeriesBlockInit
    /\ MovieBlockInit

\* -------------------------------------------------------------- helpers
Abort_GoesOn(msg) ==
    /\ pc' = "getAllMovies"
    /\ fatal' = msg
    /\ UNCHANGED exitCode

\* an error leaves main(): main().catch prints it and exits with status 1
Abort(msg) ==
    /\ pc' = "exit"
    /\ exitCode' = 1
    /\ fatal' = msg

\* the series block ends: its locals go out of scope
LeaveSeriesBlock(report) ==
    /\ seriesReport' = report
    /\ allEpisodes' = <<>> /\ fullyUnwatchedSeries' = <<>> /\ sonarrSeries' = <<>>
    /\ seriesToProcess' = <<>> /\ actions' = <<>> /\ sIdx' = 0
    /\ episodes' = <<>> /\ eIdx' = 0
    /\ deletedCount' = 0 /\ skippedCount' = 0 /\ totalDeleted' = 0 /\ totalSkipped' = 0
    /\ totalFilesToDelete' = 0 /\ totalSizeBytes' = 0
    /\ IF args.hasRadarr
       THEN pc' = "getAllMovies" /\ UNCHANGED exitCode
       ELSE pc' = "exit" /\ exitCode' = 0
    /\ UNCHANGED fatal

\* the movie block ends, and main() with it
LeaveMovieBlock(report) ==
    /\ movieReport' = report
    /\ pc' = "exit"
    /\ exitCode' = 0
    /\ UNCHANGED fatal

\* the request main() sends from its present position; NoRequest where the
\* code runs to its next position without calling a backend
RequestAt ==
    CASE pc = "authenticate" -> Request("authenticate", 0)
      [] pc = "getAllEpisodes" -> Request("getAllEpisodes", 0)
      [] pc = "getSeries" -> Request("getSeries", 0)
      [] pc = "seriesLoop" ->
            IF actions[sIdx].fileCount = 0 THEN NoRequest
            ELSE Request("getEpisodesBySeriesId", actions[sIdx].seriesId)
      [] pc = "episodeLoop" ->
            IF eIdx <= Len(episodes) /\ HasEpisodeFile(episodes[eIdx])
            THEN Request("deleteEpisodeFile", episodes[eIdx])
            ELSE NoRequest
      [] pc = "getAllMovies" -> Request("getAllMovies", 0)
      [] pc = "getMovies" -> Request("getMovies", 0)
      [] pc = "movieLoop" ->
            IF movieActions[mIdx].movieFileId = 0
            THEN Request("getMovieById", movieActions[mIdx].movieId)
            ELSE Request("deleteMovieFile", movieActions[mIdx].movieFileId)
      [] pc = "movieUnmonitor" -> Request("getMovieById", movieActions[mIdx].movieId)
      [] pc = "moviePut" -> Request("putMovie", movieActions[mIdx].movieId)
      [] OTHER -> NoRequest

\* the awaited request is answered and main() resumes
Answered ==
    /\ waiting
    /\ outstanding # <<>>
    /\ Head(outstanding) = RequestAt
    /\ outstanding' = Tail(outstanding)
    /\ waiting' = FALSE

\* main() runs on without a backend
Synchronous ==
    /\ ~waiting
    /\ RequestAt = NoRequest
    /\ UNCHANGED netVars

\* -------------------------------------------------------------- actions
\* main() reaches an await of a client call: the request goes out
Issue ==
    /\ ~waiting
    /\ RequestAt # NoRequest
    /\ outstanding' = Append(outstanding, RequestAt)
    /\ waiting' = Awaits(RequestAt.op)
    /\ UNCHANGED <<cliVars, runVars, seriesVars, movieVars>>

\* index.ts 72-104: the mode and the credential check
Start ==
    /\ pc = "start"
    /\ Synchronous
    /\ dryRun' = DryRunOf(args)
    /\ IF ~args.hasSonarr /\ ~args.hasRadarr
       THEN pc' = "exit" /\ exitCode' = 1
       ELSE pc' = "authenticate" /\ UNCHANGED exitCode
    /\ UNCHANGED <<cliVars, args, now, fatal, calls, errors, seriesReport, movieReport,
                   seriesVars, movieVars>>

\* index.ts 105-109
Authenticate ==
    /\ pc = "authenticate"
    /\ Answered
    /\ \E r \in ReadOutcomes :
        /\ calls' = Append(calls, Call("authenticate", 0, r))
        /\ IF r # OK THEN Abort(r)
           ELSE /\ pc' = IF args.hasSonarr THEN "getAllEpisodes" ELSE "getAllMovies"
                /\ UNCHANGED <<exitCode, fatal>>
    /\ UNCHANGED <<cliVars, args, dryRun, now, errors, seriesReport, movieReport,
                   seriesVars, movieVars>>

\* index.ts 110-162: fetch the episodes, group them, classify the series.
\* The episodes are read here only; the state keeps what the classification
\* made of them.
GetAllEpisodes ==
    /\ pc = "getAllEpisodes"
    /\ Answered
    /\ \E r \in ReadOutcomes :
        /\ calls' = Append(calls, Call("getAllEpisodes", 0, r))
        /\ IF r # OK
           THEN Abort(r) /\ UNCHANGED <<seriesReport, seriesVars>>
           ELSE \E eps \in SeqsUpTo(EpisodeRecords, MaxEpisodes) :
                LET fus == FullyUnwatchedSeries(eps, args.days, now) IN
                IF Len(fus) = 0
                THEN LeaveSeriesBlock("noStale")
                ELSE /\ fullyUnwatchedSeries' = fus
                     /\ pc' = "getSeries"
                     /\ UNCHANGED <<exitCode, fatal, seriesReport, allEpisodes,
                                    sonarrSeries, seriesToProcess, actions, sIdx,
                                    episodes, eIdx, deletedCount, skippedCount,
                                    totalDeleted, totalSkipped,
                                    totalFilesToDelete, totalSizeBytes>>
    /\ UNCHANGED <<cliVars, args, dryRun, now, errors, movieReport, movieVars>>

\* index.ts 163-239: fetch the catalog, match, build and sort the actions,
\* print the summary, and take the dry-run or the live branch.  The listing is
\* read here only; the state keeps the matched entries.
GetSeries ==
    /\ pc = "getSeries"
    /\ Answered
    /\ \E r \in ReadOutcomes :
        /\ calls' = Append(calls, Call("getSeries", 0, r))
        /\ IF r # OK
           THEN Abort(r) /\ UNCHANGED <<seriesReport, seriesVars>>
           ELSE \E listing \in SonarrListings :
                LET stp == SeriesToProcess(fullyUnwatchedSeries, listing) IN
                IF Len(stp) = 0 THEN LeaveSeriesBlock("noMatch")
                ELSE IF dryRun THEN LeaveSeriesBlock("dryRun")
                ELSE /\ seriesToProcess' = stp
                     /\ totalFilesToDelete' = SumOf(SeriesActions(stp), "fileCount")
                     /\ totalSizeBytes' = SumOf(SeriesActions(stp), "sizeBytes")
                     /\ actions' = SortBySizeDesc(SeriesActions(stp))
                     /\ sIdx' = 1
                     /\ totalDeleted' = 0
                     /\ totalSkipped' = 0
                     /\ pc' = "seriesLoop"
                     /\ UNCHANGED <<exitCode, fatal, seriesReport, allEpisodes,
                                    sonarrSeries, fullyUnwatchedSeries, episodes,
                                    eIdx, deletedCount, skippedCount>>
    /\ UNCHANGED <<cliVars, args, dryRun, now, errors, movieReport, movieVars>>

\* the series loop goes to its next action, or the block ends (index.ts 281-284)
NextSeriesAction ==
    IF sIdx + 1 > Len(actions)
    THEN /\ LeaveSeriesBlock("complete")
    ELSE /\ sIdx' = sIdx + 1
         /\ pc' = "seriesLoop"
         /\ UNCHANGED <<exitCode, fatal, seriesReport, allEpisodes,
                        fullyUnwatchedSeries, sonarrSeries, seriesToProcess, actions,
                        totalFilesToDelete, totalSizeBytes>>

\* index.ts 241-253: one action of the series loop, up to its first await
SeriesLoop ==
    /\ pc = "seriesLoop"
    /\ LET a == actions[sIdx] IN
       IF a.fileCount = 0
       THEN \E r \in UpdateSeriesMonitoredOutcomes :
            /\ Synchronous
            /\ IF r # OK
               THEN /\ Abort(r)
                    /\ UNCHANGED <<calls, seriesReport, seriesVars>>
               ELSE /\ calls' = Append(calls, Call("updateSeriesMonitored", a.seriesId, r))
                    /\ NextSeriesAction
                    /\ IF sIdx + 1 > Len(actions)
                       THEN TRUE
                       ELSE /\ totalSkipped' = totalSkipped + 1
                            /\ UNCHANGED <<episodes, eIdx, deletedCount, skippedCount,
                                           totalDeleted>>
       ELSE \E r \in ReadOutcomes :
            /\ Answered
            /\ calls' = Append(calls, Call("getEpisodesBySeriesId", a.seriesId, r))
            /\ IF r # OK
               THEN Abort(r) /\ UNCHANGED <<seriesReport, seriesVars>>
               ELSE \E ids \in EpisodeFileIdLists(a.seriesId) :
                    /\ episodes' = ids
                    /\ eIdx' = 1
                    /\ deletedCount' = 0
                    /\ skippedCount' = 0
                    /\ pc' = "episodeLoop"
                    /\ UNCHANGED <<exitCode, fatal, seriesReport, allEpisodes,
                                   fullyUnwatchedSeries, sonarrSeries, seriesToProcess,
                                   actions, sIdx, totalDeleted, totalSkipped,
                                   totalFilesToDelete, totalSizeBytes>>
    /\ UNCHANGED <<cliVars, args, dryRun, now, errors, movieReport, movieVars>>

\* index.ts 255-271: one episode of the series being processed
EpisodeLoop ==
    /\ pc = "episodeLoop"
    /\ eIdx <= Len(episodes)
    /\ LET fid == episodes[eIdx] IN
       IF HasEpisodeFile(fid)
       THEN \E r \in WriteOutcomes :
            /\ Answered
            /\ calls' = Append(calls, Call("deleteEpisodeFile", fid, r))
            /\ deletedCount' = IF r = OK THEN deletedCount + 1 ELSE deletedCount
            /\ skippedCount' = IF r # OK /\ IsNotFound(r)
                               THEN skippedCount + 1 ELSE skippedCount
            /\ errors' = IF r # OK /\ ~IsNotFound(r)
                         THEN Append(errors, [title |-> actions[sIdx].seriesTitle,
                                              fileId |-> fid, message |-> r])
                         ELSE errors
       ELSE /\ Synchronous
            /\ skippedCount' = skippedCount + 1
            /\ UNCHANGED <<calls, errors, deletedCount>>
    /\ eIdx' = eIdx + 1
    /\ UNCHANGED <<cliVars, args, dryRun, now, pc, exitCode, fatal, seriesReport, movieReport,
                   allEpisodes, fullyUnwatchedSeries, sonarrSeries, seriesToProcess,
                   actions, sIdx, episodes, totalDeleted, totalSkipped,
                   totalFilesToDelete, totalSizeBytes, movieVars>>

\* index.ts 273-279: after the episodes of a series, unmonitor it
UnmonitorSeries ==
    /\ pc = "episodeLoop"
    /\ eIdx > Len(episodes)
    /\ Synchronous
    /\ \E r \in UpdateSeriesMonitoredOutcomes :
        IF r # OK
        THEN /\ Abort(r)
             /\ UNCHANGED <<calls, seriesReport, seriesVars>>
        ELSE /\ calls' = Append(calls, Call("updateSeriesMonitored",
                                            actions[sIdx].seriesId, r))
             /\ NextSeriesAction
             /\ IF sIdx + 1 > Len(actions)
                THEN TRUE
                ELSE /\ totalDeleted' = totalDeleted + deletedCount
                     /\ UNCHANGED <<episodes, eIdx, deletedCount, skippedCount,
                                    totalSkipped>>
    /\ UNCHANGED <<cliVars, args, dryRun, now, errors, movieReport, movieVars>>

\* index.ts 290-317: fetch the movies and classify them.  The movies are read
\* here only; the state keeps the stale ones.
GetAllMovies ==
    /\ pc = "getAllMovies"
    /\ Answered
    /\ \E r \in ReadOutcomes :
        /\ calls' = Append(calls, Call("getAllMovies", 0, r))
        /\ IF r # OK
           THEN Abort(r) /\ UNCHANGED <<movieReport, movieVars>>
           ELSE \E movies \in SeqsUpTo(MovieRecords, MaxMovies) :
                LET fum == FullyUnwatchedMovies(movies, args.days, now) IN
                IF Len(fum) = 0
                THEN LeaveMovieBlock("noStale") /\ UNCHANGED movieVars
                ELSE /\ fullyUnwatchedMovies' = fum
                     /\ pc' = "getMovies"
                     /\ UNCHANGED <<exitCode, fatal, movieReport, allMovies,
                                    radarrMovies, moviesToProcess, movieActions, mIdx,
                                    totalMoviesDeleted, totalMoviesSkipped,
                                    totalMovieFilesToDelete, totalMovieSizeBytes>>
    /\ UNCHANGED <<cliVars, args, dryRun, now, errors, seriesReport, seriesVars>>

\* index.ts 318-391: fetch the catalog, match, build and sort the actions,
\* print the summary, and take the dry-run or the live branch.  The listing is
\* read here only; the state keeps the matched entries.
GetMovies ==
    /\ pc = "getMovies"
    /\ Answered
    /\ \E r \in ReadOutcomes :
        /\ calls' = Append(calls, Call("getMovies", 0, r))
        /\ IF r # OK
           THEN Abort(r) /\ UNCHANGED <<movieReport, movieVars>>
           ELSE \E listing \in RadarrListings :
                LET mtp == MoviesToProcess(fullyUnwatchedMovies, listing) IN
                /\ moviesToProcess' = mtp
                /\ totalMovieFilesToDelete' = Len(MovieActions(mtp))
                /\ totalMovieSizeBytes' = SumOf(MovieActions(mtp), "sizeBytes")
                /\ movieActions' = IF Len(mtp) = 0 THEN <<>>
                                   ELSE SortBySizeDesc(MovieActions(mtp))
                /\ IF Len(mtp) = 0
                   THEN LeaveMovieBlock("noMatch") /\ UNCHANGED mIdx
                   ELSE IF dryRun
                   THEN LeaveMovieBlock("dryRun") /\ UNCHANGED mIdx
                   ELSE /\ mIdx' = 1
                        /\ pc' = "movieLoop"
                        /\ UNCHANGED <<exitCode, fatal, movieReport>>
                /\ UNCHANGED <<allMovies, radarrMovies, fullyUnwatchedMovies,
                               totalMoviesDeleted, totalMoviesSkipped>>
    /\ UNCHANGED <<cliVars, args, dryRun, now, errors, seriesReport, seriesVars>>

\* the movie loop goes to its next action, or the block ends (index.ts 418-421)
NextMovieAction ==
    IF mIdx + 1 > Len(movieActions)
    THEN /\ LeaveMovieBlock("complete")
         /\ UNCHANGED mIdx
    ELSE /\ mIdx' = mIdx + 1
         /\ pc' = "movieLoop"
         /\ UNCHANGED <<exitCode, fatal, movieReport>>

\* what the catch of index.ts 408-415 does with an error thrown in the try
MovieCatch(a, r) ==
    /\ totalMoviesSkipped' = IF IsNotFound(r) THEN totalMoviesSkipped + 1
                             ELSE totalMoviesSkipped
    /\ errors' = IF IsNotFound(r) THEN errors
                 ELSE Append(errors, [title |-> a.movieTitle,
                                      fileId |-> a.movieFileId, message |-> r])
    /\ UNCHANGED totalMoviesDeleted

\* index.ts 393-404: one action of the movie loop, up to the answer of its
\* first call
MovieLoop ==
    /\ pc = "movieLoop"
    /\ Answered
    /\ LET a == movieActions[mIdx] IN
       IF a.movieFileId = 0
       THEN \E r \in WriteOutcomes :
            /\ calls' = Append(calls, Call("updateMovieMonitored", a.movieId, r))
            /\ IF r # OK
               THEN /\ Abort(r)
                    /\ UNCHANGED <<movieReport, mIdx, totalMoviesSkipped>>
               ELSE /\ totalMoviesSkipped' = totalMoviesSkipped + 1
                    /\ NextMovieAction
            /\ UNCHANGED <<errors, totalMoviesDeleted>>
       ELSE \E r \in WriteOutcomes :
            /\ calls' = Append(calls, Call("deleteMovieFile", a.movieFileId, r))
            /\ IF r = OK
               THEN /\ pc' = "movieUnmonitor"
                    /\ UNCHANGED <<exitCode, fatal, movieReport, mIdx, errors,
                                   totalMoviesDeleted, totalMoviesSkipped>>
               ELSE /\ MovieCatch(a, r)
                    /\ NextMovieAction
    /\ UNCHANGED <<cliVars, args, dryRun, now, seriesReport, seriesVars, allMovies,
                   fullyUnwatchedMovies, radarrMovies, moviesToProcess, movieActions,
                   totalMovieFilesToDelete, totalMovieSizeBytes>>

\* index.ts 405, radarr-client.ts 36-37: the file is deleted;
\* updateMovieMonitored first reads the movie.  An error of the read leaves
\* updateMovieMonitored and lands in the catch of main().
UnmonitorMovie ==
    /\ pc = "movieUnmonitor"
    /\ Answered
    /\ LET a == movieActions[mIdx] IN
       \E r \in WriteOutcomes :
            IF r = OK
            THEN /\ pc' = "moviePut"
                 /\ UNCHANGED <<calls, exitCode, fatal, movieReport, mIdx, errors,
                                totalMoviesDeleted, totalMoviesSkipped>>
            ELSE /\ calls' = Append(calls, Call("updateMovieMonitored", a.movieId, r))
                 /\ MovieCatch(a, r)
                 /\ NextMovieAction
    /\ UNCHANGED <<cliVars, args, dryRun, now, seriesReport, seriesVars, allMovies,
                   fullyUnwatchedMovies, radarrMovies, moviesToProcess, movieActions,
                   totalMovieFilesToDelete, totalMovieSizeBytes>>

\* radarr-client.ts 38-45, index.ts 406-415: updateMovieMonitored writes the
\* movie back with monitored = false, and the try of main() ends
PutMovie ==
    /\ pc = "moviePut"
    /\ Answered
    /\ LET a == movieActions[mIdx] IN
       \E r \in WriteOutcomes :
            /\ calls' = Append(calls, Call("updateMovieMonitored", a.movieId, r))
            /\ IF r = OK
               THEN /\ totalMoviesDeleted' = totalMoviesDeleted + 1
                    /\ UNCHANGED <<errors, totalMoviesSkipped>>
               ELSE MovieCatch(a, r)
            /\ NextMovieAction
    /\ UNCHANGED <<cliVars, args, dryRun, now, seriesReport, seriesVars, allMovies,
                   fullyUnwatchedMovies, radarrMovies, moviesToProcess, movieActions,
                   totalMovieFilesToDelete, totalMovieSizeBytes>>

Next ==
    \/ Issue
    \/ Start
    \/ Authenticate
    \/ GetAllEpisodes
    \/ GetSeries
    \/ SeriesLoop
    \/ EpisodeLoop
    \/ UnmonitorSeries
    \/ GetAllMovies
    \/ GetMovies
    \/ MovieLoop
    \/ UnmonitorMovie
    \/ PutMovie

Spec == Init /\ [][Next]_vars

\* ------------------------------------------------- the options, alone
Flags == {"", "true", "false"}
Keys == {"", "key"}
NoArgv == [dryRun |-> "", execute |-> "", sonarrApiKey |-> "", radarrApiKey |-> ""]
NoEnv == [DRY_RUN |-> "", SONARR_API_KEY |-> "", RADARR_API_KEY |-> ""]

InitArgs ==
    /\ argv \in [dryRun : Flags, execute : Flags,
                 sonarrApiKey : Keys, radarrApiKey : Keys]
    /\ env \in [DRY_RUN : {"", "true", "false", "1"},
                SONARR_API_KEY : Keys, RADARR_API_KEY : Keys]
    /\ args = [dryRun |-> FALSE, execute |-> FALSE, hasSonarr |-> FALSE,
               hasRadarr |-> FALSE, days |-> RunDays]
    /\ pc = "parse"
    /\ dryRun = FALSE /\ now = Now0 /\ exitCode = NULL /\ fatal = ""
    /\ calls = <<>> /\ errors = <<>> /\ seriesReport = "" /\ movieReport = ""
    /\ outstanding = <<>> /\ waiting = FALSE
    /\ SeriesBlockInit
    /\ MovieBlockInit

\* index.ts 7-62
Parse ==
    /\ pc = "parse"
    /\ args' = ParseArgs(argv, env, RunDays)
    /\ pc' = "start"
    /\ UNCHANGED <<cliVars, dryRun, now, exitCode, fatal, calls, errors,
                   seriesReport, movieReport, netVars, seriesVars, movieVars>>

NextArgs == Parse \/ Start

SpecArgs == InitArgs /\ [][NextArgs]_vars

\* ------------------------------------------- the classification, alone
\* Creation dates around the day boundaries of every threshold, and one in
\* the future.
StaleDates ==
    {Now0 - d * MsPerDay - delta : d \in 0..MaxDays, delta \in {0, 1000}}
    \cup {Now0 + (MaxDays + 1) * MsPerDay}

RunIdle ==
    /\ dryRun = TRUE /\ now = Now0 /\ exitCode = NULL /\ fatal = ""
    /\ calls = <<>> /\ errors = <<>> /\ seriesReport = "" /\ movieReport = ""
    /\ outstanding = <<>> /\ waiting = FALSE
    /\ sonarrSeries = <<>> /\ seriesToProcess = <<>> /\ actions = <<>> /\ sIdx = 0
    /\ episodes = <<>> /\ eIdx = 0
    /\ deletedCount = 0 /\ skippedCount = 0 /\ totalDeleted = 0 /\ totalSkipped = 0
    /\ totalFilesToDelete = 0 /\ totalSizeBytes = 0
    /\ radarrMovies = <<>> /\ moviesToProcess = <<>> /\ movieActions = <<>> /\ mIdx = 0
    /\ totalMoviesDeleted = 0 /\ totalMoviesSkipped = 0
    /\ totalMovieFilesToDelete = 0 /\ totalMovieSizeBytes = 0

InitStale ==
    /\ argv = NoArgv
    /\ env = NoEnv
    /\ args \in [dryRun : {TRUE}, execute : {FALSE},
                 hasSonarr : {TRUE}, hasRadarr : {TRUE}, days : 0..MaxDays]
    /\ RunIdle
    /\ fullyUnwatchedSeries = <<>>
    /\ fullyUnwatchedMovies = <<>>
    /\ \/ /\ pc = "classifySeries"
          /\ allEpisodes \in SeqsUpTo([seriesName : EpisodeNames, played : BOOLEAN,
                                       dateCreated : StaleDates], MaxGroup)
          /\ allMovies = <<>>
       \/ /\ pc = "classifyMovies"
          /\ allMovies \in SeqsUpTo([name : MovieNames, played : BOOLEAN,
                                     dateCreated : StaleDates], MaxGroup)
          /\ allEpisodes = <<>>

\* index.ts 122-150
ClassifySeries ==
    /\ pc = "classifySeries"
    /\ fullyUnwatchedSeries' = FullyUnwatchedSeries(allEpisodes, args.days, now)
    /\ pc' = "classified"
    /\ UNCHANGED netVars
    /\ UNCHANGED <<cliVars, args, dryRun, now, exitCode, fatal, calls, errors, seriesReport,
                   movieReport, allEpisodes, sonarrSeries, seriesToProcess, actions,
                   sIdx, episodes, eIdx, deletedCount, skippedCount, totalDeleted,
                   totalSkipped, totalFilesToDelete, totalSizeBytes, movieVars>>

\* index.ts 300-305
ClassifyMovies ==
    /\ pc = "classifyMovies"
    /\ fullyUnwatchedMovies' = FullyUnwatchedMovies(allMovies, args.days, now)
    /\ pc' = "classified"
    /\ UNCHANGED netVars
    /\ UNCHANGED <<cliVars, args, dryRun, now, exitCode, fatal, calls, errors, seriesReport,
                   movieReport, seriesVars, allMovies, radarrMovies, moviesToProcess,
                   movieActions, mIdx, totalMoviesDeleted, totalMoviesSkipped,
                   totalMovieFilesToDelete, totalMovieSizeBytes>>

NextStale == ClassifySeries \/ ClassifyMovies

SpecStale == InitStale /\ [][NextStale]_vars

\* ------------------------------------------------- the matching, alone
\* the stale series come out of a Map: their names are distinct
DistinctNameSeqs ==
    {q \in SeqsUpTo(SeriesNames, MaxEpisodes) :
        \A i, j \in DOMAIN q : i # j => q[i] # q[j]}

StaleSeriesRecords ==
    {[i \in DOMAIN q |-> [seriesName |-> q[i], episodeCount |-> 1,
                          oldestDate |-> OldDate, watchedCount |-> 0]] :
        q \in DistinctNameSeqs}

InitMatch ==
    /\ argv = NoArgv
    /\ env = NoEnv
    /\ args \in [dryRun : {TRUE}, execute : {FALSE},
                 hasSonarr : {TRUE}, hasRadarr : {TRUE}, days : {RunDays}]
    /\ dryRun = TRUE /\ now = Now0 /\ exitCode = NULL /\ fatal = ""
    /\ calls = <<>> /\ errors = <<>> /\ seriesReport = "" /\ movieReport = ""
    /\ outstanding = <<>> /\ waiting = FALSE
    /\ allEpisodes = <<>> /\ allMovies = <<>>
    /\ seriesToProcess = <<>> /\ actions = <<>> /\ sIdx = 0
    /\ episodes = <<>> /\ eIdx = 0
    /\ deletedCount = 0 /\ skippedCount = 0 /\ totalDeleted = 0 /\ totalSkipped = 0
    /\ totalFilesToDelete = 0 /\ totalSizeBytes = 0
    /\ moviesToProcess = <<>> /\ movieActions = <<>> /\ mIdx = 0
    /\ totalMoviesDeleted = 0 /\ totalMoviesSkipped = 0
    /\ totalMovieFilesToDelete = 0 /\ totalMovieSizeBytes = 0
    /\ \/ /\ pc = "matchSeries"
          /\ fullyUnwatchedSeries \in StaleSeriesRecords
          /\ sonarrSeries \in SonarrListings
          /\ fullyUnwatchedMovies = <<>>
          /\ radarrMovies = <<>>
       \/ /\ pc = "matchMovies"
          /\ fullyUnwatchedMovies \in
                SeqsUpTo([name : MovieNames, played : {FALSE},
                          dateCreated : {OldDate}], MaxMovies)
          /\ radarrMovies \in RadarrListings
          /\ fullyUnwatchedSeries = <<>>
          /\ sonarrSeries = <<>>

\* index.ts 165-230
MatchSeries ==
    /\ pc = "matchSeries"
    /\ seriesToProcess' = SeriesToProcess(fullyUnwatchedSeries, sonarrSeries)
    /\ totalFilesToDelete' = SumOf(SeriesActions(seriesToProcess'), "fileCount")
    /\ totalSizeBytes' = SumOf(SeriesActions(seriesToProcess'), "sizeBytes")
    /\ actions' = SortBySizeDesc(SeriesActions(seriesToProcess'))
    /\ pc' = "matched"
    /\ UNCHANGED netVars
    /\ UNCHANGED <<cliVars, args, dryRun, now, exitCode, fatal, calls, errors, seriesReport,
                   movieReport, allEpisodes, fullyUnwatchedSeries, sonarrSeries,
                   sIdx, episodes, eIdx, deletedCount, skippedCount, totalDeleted,
                   totalSkipped, movieVars>>

\* index.ts 320-382
MatchMovies ==
    /\ pc = "matchMovies"
    /\ moviesToProcess' = MoviesToProcess(fullyUnwatchedMovies, radarrMovies)
    /\ totalMovieFilesToDelete' = Len(MovieActions(moviesToProcess'))
    /\ totalMovieSizeBytes' = SumOf(MovieActions(moviesToProcess'), "sizeBytes")
    /\ movieActions' = SortBySizeDesc(MovieActions(moviesToProcess'))
    /\ pc' = "matched"
    /\ UNCHANGED netVars
    /\ UNCHANGED <<cliVars, args, dryRun, now, exitCode, fatal, calls, errors, seriesReport,
                   movieReport, seriesVars, allMovies, fullyUnwatchedMovies,
                   radarrMovies, mIdx, totalMoviesDeleted, totalMoviesSkipped>>

NextMatch == MatchSeries \/ MatchMovies

SpecMatch == InitMatch /\ [][NextMatch]_vars

\* ================================================================ claims
MutatingOps == {"deleteEpisodeFile", "deleteMovieFile",
                "updateSeriesMonitored", "updateMovieMonitored"}

DryRunMode == args.dryRun /\ ~args.execute
LiveMode == pc # "start" /\ ~DryRunMode

CallsOf(op) == {k \in DOMAIN calls : calls[k].op = op}
NotFoundCalls(op) == {k \in CallsOf(op) : calls[k].res \in NotFoundMessages}

\* C1: in dry-run mode no deleteEpisodeFile, deleteMovieFile, series
\* set-monitored or movie set-monitored call is ever made.
C1_DryRunNoMutation ==
    DryRunMode => \A k \in DOMAIN calls : calls[k].op \notin MutatingOps

\* a dry run that had series actions and movie actions to report
C1_Witness ==
    /\ DryRunMode
    /\ pc = "exit"
    /\ seriesReport = "dryRun"
    /\ movieReport = "dryRun"

\* C2: in live mode, once all file deletions of an action have been attempted
\* and the run has left the action, set-monitored(false) was invoked on the
\* action's catalog entry, whatever the deletions did.
C2_UnmonitorAfterDeletes ==
    LiveMode =>
        /\ \A i \in DOMAIN movieActions :
              (i < mIdx \/ movieReport = "complete") =>
                  \E k \in CallsOf("updateMovieMonitored") :
                      calls[k].arg = movieActions[i].movieId
        /\ \A i \in DOMAIN actions :
              (i < sIdx \/ (i = sIdx /\ pc = "exit" /\ fatal = TypeErrorMessage)) =>
                  \E k \in CallsOf("updateSeriesMonitored") :
                      calls[k].arg = actions[i].seriesId

\* C3: in live mode no outcome of a delete, of the per-series episode
\* enumeration or of a set-monitored call ends the run: from inside the
\* series loop or the movie loop the run never exits with status 1.
C3_LoopNeverAborts ==
    [][(pc \in {"seriesLoop", "episodeLoop", "movieLoop", "movieUnmonitor"})
        => ~(pc' = "exit" /\ exitCode' = 1)]_vars

\* the delete calls of the series being processed: those after its enumeration
DeletesOfSeries ==
    LET last == Max(CallsOf("getEpisodesBySeriesId"))
        tail == SubSeq(calls, last + 1, Len(calls))
    IN  [k \in DOMAIN tail |-> tail[k].arg]

\* C4: within one series action a delete is attempted exactly once, in
\* enumeration order, for every episode whose file id is neither null nor
\* zero, whatever the earlier deletes of the action did.
C4_EveryFileAttemptedOnce ==
    (LiveMode /\ eIdx >= 1) =>
        /\ DeletesOfSeries =
              SelectSeq(SubSeq(episodes, 1, eIdx - 1), LAMBDA f : f # NULL /\ f # 0)
        /\ \A k \in DOMAIN calls :
              k > Max(CallsOf("getEpisodesBySeriesId")) => calls[k].op = "deleteEpisodeFile"

\* both files of a two-file series were attempted although the first delete
\* failed, once with not-found and once otherwise
C4_Witness ==
    /\ LiveMode
    /\ pc = "exit"
    /\ Len(episodes) = 2
    /\ eIdx = 3
    /\ Len(calls) >= 2
    /\ calls[Len(calls) - 1].op = "deleteEpisodeFile"
    /\ calls[Len(calls) - 1].res = "500 Internal Server Error"
    /\ calls[Len(calls)].op = "deleteEpisodeFile"
    /\ calls[Len(calls)].res = "404 Not Found"

\* C5: at the end of a live run every delete that failed with not-found is in
\* the run-level skipped count, and none of them is recorded as an error.
C5_NotFoundIsSkipped ==
    (LiveMode /\ pc = "exit") =>
        /\ totalSkipped >= Cardinality(NotFoundCalls("deleteEpisodeFile"))
        /\ totalMoviesSkipped >= Cardinality(NotFoundCalls("deleteMovieFile"))
        /\ \A k \in DOMAIN errors : errors[k].message \notin NotFoundMessages

\* C6: in live mode an action without files causes no enumeration and no
\* delete, exactly one set-monitored(false) call on its catalog entry, and
\* adds one to the skipped count and nothing to the deleted count.
C6_ZeroFileAction ==
    (LiveMode /\ sIdx = 1 /\ pc # "seriesLoop" /\ actions[1].fileCount = 0) =>
        /\ CallsOf("getEpisodesBySeriesId") = {}
        /\ CallsOf("deleteEpisodeFile") = {}
        /\ Cardinality({k \in CallsOf("updateSeriesMonitored") :
                           calls[k].arg = actions[1].seriesId}) = 1
        /\ totalSkipped = 1
        /\ totalDeleted = 0

\* ceil(diff / 1 day) for a difference of either sign
CeilDays(diff) ==
    IF diff >= 0 THEN (diff + MsPerDay - 1) \div MsPerDay
    ELSE -((-diff) \div MsPerDay)

InSeq(x, q) == \E k \in DOMAIN q : q[k] = x

StaleSeriesNames ==
    [i \in DOMAIN fullyUnwatchedSeries |-> fullyUnwatchedSeries[i].seriesName]

GroupOf(name) == {i \in DOMAIN allEpisodes : allEpisodes[i].seriesName = name}
OldestCreatedAt(g) == Min({allEpisodes[i].dateCreated : i \in g})
FullyUnwatched(g) == g # {} /\ \A i \in g : ~allEpisodes[i].played

\* C7: a group is classified stale iff it has a member, no member is watched
\* and ceil((now - oldestCreatedAt) / 1 day) > ageThresholdDays; a movie is a
\* group of one.
C7_StaleIffRule ==
    pc = "classified" =>
        /\ \A name \in SeriesNames :
              InSeq(name, StaleSeriesNames) <=>
                  /\ FullyUnwatched(GroupOf(name))
                  /\ CeilDays(now - OldestCreatedAt(GroupOf(name))) > args.days
        /\ \A i \in DOMAIN allMovies :
              InSeq(allMovies[i], fullyUnwatchedMovies) <=>
                  /\ ~allMovies[i].played
                  /\ CeilDays(now - allMovies[i].dateCreated) > args.days

\* C8: a fully unwatched group whose oldest member was created one second
\* more than d days before now is stale, one created exactly d days before
\* now is not; likewise for a movie.
C8_DayBoundary ==
    pc = "classified" =>
        /\ \A name \in SeriesNames :
              FullyUnwatched(GroupOf(name)) =>
                  /\ OldestCreatedAt(GroupOf(name)) = now - args.days * MsPerDay - 1000
                        => InSeq(name, StaleSeriesNames)
                  /\ OldestCreatedAt(GroupOf(name)) = now - args.days * MsPerDay
                        => ~InSeq(name, StaleSeriesNames)
        /\ \A i \in DOMAIN allMovies :
              ~allMovies[i].played =>
                  /\ allMovies[i].dateCreated = now - args.days * MsPerDay - 1000
                        => InSeq(allMovies[i], fullyUnwatchedMovies)
                  /\ allMovies[i].dateCreated = now - args.days * MsPerDay
                        => ~InSeq(allMovies[i], fullyUnwatchedMovies)

\* one series a second past the boundary and classified stale, another exactly
\* on it and not, for a threshold of at least one day
C8_Witness ==
    /\ pc = "classified"
    /\ args.days >= 1
    /\ FullyUnwatched(GroupOf("A"))
    /\ OldestCreatedAt(GroupOf("A")) = now - args.days * MsPerDay - 1000
    /\ InSeq("A", StaleSeriesNames)
    /\ FullyUnwatched(GroupOf("B"))
    /\ OldestCreatedAt(GroupOf("B")) = now - args.days * MsPerDay
    /\ ~InSeq("B", StaleSeriesNames)

\* the matched entry is an entry of the listing with the stale name or title
MatchedFromListing ==
    /\ \A i \in DOMAIN seriesToProcess :
          LET e == seriesToProcess[i].sonarrSeries IN
          /\ e.id \in DOMAIN sonarrSeries
          /\ sonarrSeries[e.id] = e
          /\ e.title = seriesToProcess[i].jellyfinName
    /\ \A i \in DOMAIN moviesToProcess :
          LET e == moviesToProcess[i].radarrMovie IN
          /\ e.id \in DOMAIN radarrMovies
          /\ radarrMovies[e.id] = e
          /\ e.title = moviesToProcess[i].jellyfinName
    /\ {actions[i].seriesId : i \in DOMAIN actions}
          = {seriesToProcess[i].sonarrSeries.id : i \in DOMAIN seriesToProcess}
    /\ {movieActions[i].movieId : i \in DOMAIN movieActions}
          = {moviesToProcess[i].radarrMovie.id : i \in DOMAIN moviesToProcess}

\* C9 as stated: of several catalog entries with one title, the matching
\* uses the one that comes first in the listing.
C9_FirstDuplicateWins ==
    pc = "matched" =>
        /\ MatchedFromListing
        /\ \A i \in DOMAIN seriesToProcess : \A j \in DOMAIN sonarrSeries :
              sonarrSeries[j].title = seriesToProcess[i].jellyfinName
                  => j >= seriesToProcess[i].sonarrSeries.id
        /\ \A i \in DOMAIN moviesToProcess : \A j \in DOMAIN radarrMovies :
              radarrMovies[j].title = moviesToProcess[i].jellyfinName
                  => j >= moviesToProcess[i].radarrMovie.id

\* C9 amended: of several catalog entries with one title, the matching uses
\* the one that comes last in the listing, for series and for movies; the
\* earlier duplicates are never matched.
C9_LastDuplicateWins ==
    pc = "matched" =>
        /\ MatchedFromListing
        /\ \A i \in DOMAIN seriesToProcess : \A j \in DOMAIN sonarrSeries :
              sonarrSeries[j].title = seriesToProcess[i].jellyfinName
                  => j <= seriesToProcess[i].sonarrSeries.id
        /\ \A i \in DOMAIN moviesToProcess : \A j \in DOMAIN radarrMovies :
              radarrMovies[j].title = moviesToProcess[i].jellyfinName
                  => j <= moviesToProcess[i].radarrMovie.id

\* a stale series matched against a listing that holds its title twice
C9_Witness ==
    /\ pc = "matched"
    /\ \E i \in DOMAIN seriesToProcess : \E j \in DOMAIN sonarrSeries :
          /\ j # seriesToProcess[i].sonarrSeries.id
          /\ sonarrSeries[j].title = seriesToProcess[i].jellyfinName
          /\ sonarrSeries[j] # [seriesToProcess[i].sonarrSeries EXCEPT !.id = j]

IsPrefix(p, q) == Len(p) <= Len(q) /\ \A k \in DOMAIN p : p[k] = q[k]

ArgsOf(op) ==
    LET sel == SelectSeq(calls, LAMBDA c : c.op = op)
    IN  [k \in DOMAIN sel |-> sel[k].arg]

\* the place of the i-th matched action among the actions taken by size,
\* largest first, equal sizes in matching order
RankBySize(M, i) ==
    Cardinality({j \in DOMAIN M : M[j].sizeBytes > M[i].sizeBytes})
    + Cardinality({j \in DOMAIN M : j < i /\ M[j].sizeBytes = M[i].sizeBytes}) + 1

InSizeOrder(M, L) ==
    /\ Len(L) = Len(M)
    /\ \A i \in DOMAIN M : L[RankBySize(M, i)] = M[i]

WithFiles(acts) == SelectSeq(acts, LAMBDA a : a.fileCount # 0)

\* C10 as stated: in live mode the actions are executed in the order in which
\* matching produced them.
C10_ExecutedInMatchOrder ==
    LiveMode =>
        /\ IsPrefix(ArgsOf("deleteMovieFile"),
                    [k \in DOMAIN moviesToProcess |->
                        moviesToProcess[k].radarrMovie.movieFileId])
        /\ IsPrefix(ArgsOf("getEpisodesBySeriesId"),
                    [k \in DOMAIN WithFiles(SeriesActions(seriesToProcess)) |->
                        WithFiles(SeriesActions(seriesToProcess))[k].seriesId])

\* C10 amended: in live mode the actions are executed one after another in
\* descending order of sizeBytes, actions of equal size in the order in which
\* matching produced them.
C10_ExecutedBySize ==
    LiveMode =>
        /\ InSizeOrder(MovieActions(moviesToProcess), movieActions)
        /\ IsPrefix(ArgsOf("deleteMovieFile"),
                    [k \in DOMAIN movieActions |-> movieActions[k].movieFileId])
        /\ InSizeOrder(SeriesActions(seriesToProcess), actions)
        /\ IsPrefix(ArgsOf("getEpisodesBySeriesId"),
                    [k \in DOMAIN WithFiles(actions) |-> WithFiles(actions)[k].seriesId])

\* two movies matched smaller first, both processed: the larger went first
C10_Witness ==
    /\ LiveMode
    /\ Len(moviesToProcess) = 2
    /\ moviesToProcess[1].radarrMovie.sizeBytes < moviesToProcess[2].radarrMovie.sizeBytes
    /\ ArgsOf("deleteMovieFile") = <<moviesToProcess[2].radarrMovie.movieFileId,
                                     moviesToProcess[1].radarrMovie.movieFileId>>

Last(q) == q[Len(q)]

SetMonitoredRequests == {"getMovieById", "putMovie"}

\* C11: at most one request to a backend is outstanding at any moment, and it
\* is the one main() is suspended on.  A delete goes out only when the
\* enumeration or the previous delete of its action has returned, the
\* set-monitored requests of an action only when its delete has returned, and
\* a request of the next action only when every call of the actions before it
\* has returned.
C11_LinearHistory ==
    /\ Len(outstanding) <= 1
    /\ outstanding # <<>> => waiting /\ Head(outstanding) = RequestAt
    /\ \A k \in DOMAIN outstanding :
          LET q == outstanding[k] IN
          /\ q.op = "deleteEpisodeFile" =>
                /\ calls # <<>>
                /\ Last(calls).op \in {"getEpisodesBySeriesId", "deleteEpisodeFile"}
          /\ q.op \in SetMonitoredRequests =>
                /\ calls # <<>>
                /\ Last(calls) = Call("deleteMovieFile", movieActions[mIdx].movieFileId, OK)
          /\ q.op = "deleteMovieFile" =>
                \A i \in 1..(mIdx - 1) :
                    \E c \in DOMAIN calls :
                        /\ calls[c].op = "deleteMovieFile"
                        /\ calls[c].arg = movieActions[i].movieFileId
                        /\ (calls[c].res # OK /\ c < Len(calls)) =>
                              calls[c + 1].op = "deleteMovieFile"
                        /\ calls[c].res = OK =>
                              /\ c < Len(calls)
                              /\ calls[c + 1] \in
                                    {Call("updateMovieMonitored", movieActions[i].movieId, r) :
                                        r \in WriteOutcomes}

\* the write of the second movie action is outstanding; its delete and both
\* calls of the first action have returned
C11_Witness ==
    /\ mIdx = 2
    /\ outstanding = <<Request("putMovie", movieActions[2].movieId)>>
    /\ Len(calls) = 6
    /\ calls[4].op = "deleteMovieFile"
    /\ calls[5].op = "updateMovieMonitored"
    /\ calls[6].op = "deleteMovieFile"

\* C12: the mode is Live iff the execute flag is set or the dry-run flag is
\* false; with no option given and no environment variable set the mode is
\* DryRun; with --execute the mode is Live whatever the dry-run flag is.
C12_ModeFromFlags ==
    pc \notin {"parse", "start"} =>
        /\ ~dryRun <=> (args.execute \/ ~args.dryRun)
        /\ (argv = NoArgv /\ env = NoEnv) => dryRun
        /\ argv.execute = "true" => ~dryRun

\* --dry-run and --execute given together: the run is live
C12_Witness ==
    /\ pc \notin {"parse", "start"}
    /\ argv.dryRun = "true"
    /\ argv.execute = "true"
    /\ env.DRY_RUN = "true"
    /\ ~dryRun

ListingOps == {"authenticate", "getAllEpisodes", "getSeries", "getAllMovies", "getMovies"}

\* C13: the run ends with status 1 exactly when neither backend has
\* credentials or the authentication, a media-server listing or a catalog
\* listing failed; every other run, dry or live, with or without failed
\* deletes, ends with status 0.
C13_ExitStatus ==
    pc = "exit" =>
        /\ exitCode \in {0, 1}
        /\ exitCode = 1 <=>
              \/ ~args.hasSonarr /\ ~args.hasRadarr
              \/ \E k \in DOMAIN calls :
                    calls[k].op \in ListingOps /\ calls[k].res # OK

Succeeded(op) == {k \in CallsOf(op) : calls[k].res = OK}

\* C14: the deleted-file count a live phase reports is the number of its
\* delete calls that returned success, whatever the failed deletes, the
\* skipped files and the set-monitored calls did.
C14_DeletedCountIsSuccesses ==
    LiveMode =>
        /\ movieReport = "complete" =>
              totalMoviesDeleted = Cardinality(Succeeded("deleteMovieFile"))
        /\ pc = "seriesLoop" =>
              totalDeleted = Cardinality(Succeeded("deleteEpisodeFile"))

StaleMovieNames == {fullyUnwatchedMovies[i].name : i \in DOMAIN fullyUnwatchedMovies}
SeriesActionsFor(n) == {i \in DOMAIN actions : actions[i].seriesTitle = n}
MovieActionsFor(n) == {i \in DOMAIN movieActions : movieActions[i].movieTitle = n}
NoFile(m) == m.movieFileId = NULL \/ m.movieFileId = 0

\* C15 as stated: a stale group without a catalog entry of its title, and a
\* stale group whose catalog entries have no files, yield no action, for
\* series and for movies, and no error.
C15_GapsExcluded ==
    pc = "matched" =>
        /\ exitCode = NULL /\ fatal = ""
        /\ \A n \in SeriesNames :
              (/\ InSeq(n, StaleSeriesNames)
               /\ \A j \in TitleIndexes(sonarrSeries, n) : sonarrSeries[j].fileCount = 0)
                  => SeriesActionsFor(n) = {}
        /\ \A n \in StaleMovieNames :
              (\A j \in TitleIndexes(radarrMovies, n) : NoFile(radarrMovies[j]))
                  => MovieActionsFor(n) = {}

\* C15 amended: a stale group without a catalog entry of its title yields no
\* action and no error, for series and for movies; a stale movie whose
\* catalog entry has no file yields none either; a stale series whose catalog
\* entry has zero episode files is kept: it yields one action with fileCount 0.
C15_ZeroFileSeriesKept ==
    pc = "matched" =>
        /\ exitCode = NULL /\ fatal = ""
        /\ \A n \in SeriesNames :
              /\ (InSeq(n, StaleSeriesNames) /\ TitleIndexes(sonarrSeries, n) = {})
                    => SeriesActionsFor(n) = {}
              /\ (InSeq(n, StaleSeriesNames) /\ TitleIndexes(sonarrSeries, n) # {})
                    => /\ Cardinality(SeriesActionsFor(n)) = 1
                       /\ \A i \in SeriesActionsFor(n) :
                             actions[i].fileCount =
                                sonarrSeries[Max(TitleIndexes(sonarrSeries, n))].fileCount
        /\ \A n \in StaleMovieNames :
              /\ TitleIndexes(radarrMovies, n) = {} => MovieActionsFor(n) = {}
              /\ TitleIndexes(radarrMovies, n) # {} =>
                    (NoFile(radarrMovies[Max(TitleIndexes(radarrMovies, n))])
                        <=> MovieActionsFor(n) = {})

\* stale series A has a catalog entry without files and is an action with
\* fileCount 0; stale series B has no catalog entry and is no action
C15_Witness ==
    /\ pc = "matched"
    /\ StaleSeriesNames = <<"A", "B">>
    /\ TitleIndexes(sonarrSeries, "B") = {}
    /\ Len(actions) = 1
    /\ actions[1].seriesTitle = "A"
    /\ actions[1].fileCount = 0

RECURSIVE SumOver(_, _, _)
\* the sum of a field over the entries of q at the positions S, in no order
SumOver(S, q, field) ==
    IF S = {} THEN 0
    ELSE LET i == CHOOSE x \in S : TRUE
         IN  q[i][field] + SumOver(S \ {i}, q, field)

Reordered(q, f) == [i \in DOMAIN q |-> q[f[i]]]

\* C16: the projected impact of an action list is the sum of the actions'
\* fileCount (for movies the number of actions) and the sum of their
\* sizeBytes; it is 0 and 0 for the empty list and the same for every
\* reordering of the list.
C16_ImpactIsPlainSum ==
    pc = "matched" =>
        /\ totalFilesToDelete = SumOver(DOMAIN actions, actions, "fileCount")
        /\ totalSizeBytes = SumOver(DOMAIN actions, actions, "sizeBytes")
        /\ totalMovieFilesToDelete = Len(movieActions)
        /\ totalMovieSizeBytes = SumOver(DOMAIN movieActions, movieActions, "sizeBytes")
        /\ actions = <<>> => totalFilesToDelete = 0 /\ totalSizeBytes = 0
        /\ movieActions = <<>> => totalMovieFilesToDelete = 0 /\ totalMovieSizeBytes = 0
        /\ \A f \in Permutations(DOMAIN actions) :
              /\ SumOf(Reordered(actions, f), "fileCount") = totalFilesToDelete
              /\ SumOf(Reordered(actions, f), "sizeBytes") = totalSizeBytes
        /\ \A f \in Permutations(DOMAIN movieActions) :
              SumOf(Reordered(movieActions, f), "sizeBytes") = totalMovieSizeBytes

\* two series actions of different sizes and file counts, which the sort of
\* the summary swapped after the totals were taken
C16_Witness ==
    /\ pc = "matched"
    /\ Len(actions) = 2
    /\ actions # SeriesActions(seriesToProcess)
    /\ actions[1].fileCount # actions[2].fileCount
    /\ totalFilesToDelete = 1
    /\ totalSizeBytes = 3

\* the stale-series record of a name, as the classification left it
StaleRecordsOf(n) ==
    {i \in DOMAIN fullyUnwatchedSeries : fullyUnwatchedSeries[i].seriesName = n}

\* the rule for a group: a member, none watched, the oldest past the threshold
EligibleSeries(g) ==
    /\ g.episodeCount >= 1
    /\ g.watchedCount = 0
    /\ CeilDays(now - g.oldestDate) > args.days

EligibleMovie(m) ==
    /\ ~m.played
    /\ CeilDays(now - m.dateCreated) > args.days

\* C17: every delete targets a file of a catalog entry whose title is the
\* name of a series with an episode, no watched episode and an oldest episode
\* past the threshold (for movies: of an unwatched movie past the threshold),
\* and every set-monitored call is for a matched catalog entry.
C17_OnlyStaleTargets ==
    /\ seriesReport = "" =>
          \A k \in CallsOf("deleteEpisodeFile") :
              \E i \in DOMAIN seriesToProcess :
                  /\ calls[k].arg \div 10 = seriesToProcess[i].sonarrSeries.id
                  /\ StaleRecordsOf(seriesToProcess[i].sonarrSeries.title) # {}
                  /\ \A j \in StaleRecordsOf(seriesToProcess[i].sonarrSeries.title) :
                        EligibleSeries(fullyUnwatchedSeries[j])
    /\ \A k \in CallsOf("deleteMovieFile") :
          \E i \in DOMAIN moviesToProcess :
              /\ calls[k].arg = moviesToProcess[i].radarrMovie.movieFileId
              /\ \E j \in DOMAIN fullyUnwatchedMovies :
                    /\ fullyUnwatchedMovies[j].name = moviesToProcess[i].radarrMovie.title
                    /\ EligibleMovie(fullyUnwatchedMovies[j])
    /\ \A k \in CallsOf("updateMovieMonitored") :
          \E i \in DOMAIN moviesToProcess :
              calls[k].arg = moviesToProcess[i].radarrMovie.id
    /\ seriesReport = "" =>
          \A k \in CallsOf("updateSeriesMonitored") :
              \E i \in DOMAIN seriesToProcess :
                  calls[k].arg = seriesToProcess[i].sonarrSeries.id

SeriesPhaseOps == {"getAllEpisodes", "getSeries", "getEpisodesBySeriesId"}
MoviePhaseOps == {"getAllMovies", "getMovies", "deleteMovieFile",
                  "updateMovieMonitored", "getMovieById", "putMovie"}

\* a call of the series phase failed and the error left main()
SeriesPhaseFailed ==
    \/ \E k \in DOMAIN calls : calls[k].op \in SeriesPhaseOps /\ calls[k].res # OK
    \/ fatal = TypeErrorMessage

MovieCallIssued ==
    \/ \E k \in DOMAIN calls : calls[k].op \in MoviePhaseOps
    \/ \E k \in DOMAIN outstanding : outstanding[k].op \in MoviePhaseOps

\* C18: with both backends configured, a movie call is issued only after the
\* series phase has ended, and never in a run in which a call of the series
\* phase failed with an error that left main().
C18_MoviesAfterSeries ==
    /\ SeriesPhaseFailed => ~MovieCallIssued /\ pc = "exit" /\ exitCode = 1
    /\ (args.hasSonarr /\ MovieCallIssued) => seriesReport # ""

\* both backends configured, the episode enumeration of a stale series
\* failed: the run is over and no movie call was made
C18_Witness ==
    /\ args.hasSonarr /\ args.hasRadarr
    /\ pc = "exit"
    /\ calls # <<>>
    /\ Last(calls).op = "getEpisodesBySeriesId"
    /\ Last(calls).res # OK
    /\ ~MovieCallIssued

\* the movie actions the live loop has entered
MovieActionsEntered ==
    IF movieReport = "complete" THEN Len(movieActions)
    ELSE IF pc \in {"movieUnmonitor", "moviePut"} THEN mIdx
    ELSE IF pc = "movieLoop" /\ (waiting \/ outstanding # <<>>) THEN mIdx
    ELSE IF pc = "movieLoop" THEN mIdx - 1
    ELSE 0

MovieDeletesIssued ==
    ArgsOf("deleteMovieFile")
    \o [k \in DOMAIN SelectSeq(outstanding, LAMBDA q : q.op = "deleteMovieFile") |->
            SelectSeq(outstanding, LAMBDA q : q.op = "deleteMovieFile")[k].arg]

\* C19: every movie action carries a file id other than zero; in live mode
\* every movie action entered has made exactly one deleteMovieFile attempt, on
\* its own file, in the order of the actions, and every set-monitored call of
\* a movie comes directly after the delete of that movie's file.
C19_MovieActionHasFile ==
    /\ \A i \in DOMAIN movieActions :
          movieActions[i].movieFileId # 0 /\ movieActions[i].movieFileId # NULL
    /\ LiveMode =>
          /\ Len(MovieDeletesIssued) = MovieActionsEntered
          /\ \A k \in DOMAIN MovieDeletesIssued :
                MovieDeletesIssued[k] = movieActions[k].movieFileId
          /\ \A k \in DOMAIN outstanding :
                outstanding[k].op \in {"getMovieById", "putMovie"} => pc # "movieLoop"
          /\ \A k \in CallsOf("updateMovieMonitored") :
                /\ k > 1
                /\ calls[k - 1].op = "deleteMovieFile"
                /\ \E i \in DOMAIN movieActions :
                      /\ movieActions[i].movieId = calls[k].arg
                      /\ movieActions[i].movieFileId = calls[k - 1].arg

\* a live movie phase of two actions has ended: two delete attempts, the
\* first failed, the second was followed by the set-monitored call
C19_Witness ==
    /\ LiveMode
    /\ movieReport = "complete"
    /\ Len(movieActions) = 2
    /\ Len(ArgsOf("deleteMovieFile")) = 2
    /\ Len(ArgsOf("updateMovieMonitored")) = 1
    /\ Last(calls).op = "updateMovieMonitored"
    /\ Last(calls).res = OK

====
